---- MODULE Spec2Model ----
(***************************************************************************)
(* Model of RNS/Utilities/rnprobe.py: the probe lifecycle driven by main() *)
(* and program_setup(), together with the transport collaborator whose     *)
(* state the program polls (path table, packet receipt) and the user       *)
(* interrupt that main() catches.                                          *)
(*                                                                         *)
(* Optional values (Python None) are sequences of length at most one:      *)
(* None is <<>> and a present value x is <<x>>.  Strings are sequences of  *)
(* one-character strings.                                                  *)
(***************************************************************************)
EXTENDS Integers, Sequences, FiniteSets

VARIABLES
    pc,                  \* position of the single thread of control
    full_name,           \* argument: optional dotted name
    destination_hexhash, \* argument: optional hex string
    size,                \* argument, then local: optional payload size
    verbosity,           \* argument, then local
    more_output,         \* local set at lines 60-65
    app_name,            \* optional first segment of full_name
    aspects,             \* remaining segments of full_name
    destination_hash,    \* optional byte sequence from bytes.fromhex
    i,                   \* index of the progress glyph
    path_known,          \* collaborator: what has_path would return now
    first_has_path,      \* optional result of the has_path call of line 70
    last_has_path,       \* optional result of the latest has_path call
    calls,               \* number of invocations of each collaborator operation
    payload_len,         \* optional length of the payload handed to RNS.Packet
    receipt,             \* optional packet receipt returned by send
    shared_instance,     \* collaborator: reticulum.is_connected_to_shared_instance
    out,                 \* messages printed (progress glyphs excepted)
    err,                 \* which failure ended program_setup, "none" otherwise
    interrupted_at,      \* pc at which KeyboardInterrupt was raised, "none" otherwise
    exit_status,         \* optional process exit status
    lookups              \* what the program read from the collaborator once the
                         \* probe was sent: the answers, in order, of
                         \* get_next_hop, get_next_hop_if_name, get_packet_rssi
                         \* and get_packet_snr, and its reads of the receipt

vars == <<pc, full_name, destination_hexhash, lookups, size, verbosity, more_output,
          app_name, aspects, destination_hash, i, path_known, first_has_path,
          last_has_path, calls, payload_len, receipt, shared_instance, out,
          err, interrupted_at, exit_status>>

----------------------------------------------------------------------------
(* Bounds of the model *)

\* length in bytes of a destination hash (RNS uses 16; the comparison and
\* the hex decoding are the same for every length)
HashBytes == 1

\* longest full_name given on the command line
MaxNameLen == 2

\* largest ordinary payload size given with --size
MaxSize == 0

----------------------------------------------------------------------------
(* Program constants *)

DEFAULT_PROBE_SIZE == 16

TRUNCATED_HASHLENGTH == HashBytes * 8

\* the progress glyphs of line 76; only their number matters
syms == <<"s0", "s1", "s2", "s3", "s4", "s5", "s6">>

SENT == "SENT"
DELIVERED == "DELIVERED"
FAILED == "FAILED"

----------------------------------------------------------------------------
(* Optional values and strings *)

None == <<>>

Some(x) == <<x>>

IsNone(o) == o = <<>>

Val(o) == o[1]

\* all strings over alphabet cs of length at most n
Strings(cs, n) == UNION {[1..k -> cs] : k \in 0..n}

\* the hexadecimal digits bytes.fromhex is modelled for
HexDigits == {"0", "F"}

Whitespace == {" "}

\* characters of the hex argument: a hexadecimal digit, an ASCII space and a
\* character that is neither
HashChars == {"F", " ", "g"}

\* characters of the name argument: a letter and the separator
NameChars == {"a", "."}

----------------------------------------------------------------------------
(* bytes.fromhex *)

DigitValue(c) == IF c = "0" THEN 0 ELSE IF c = "F" THEN 15 ELSE 37

\* first position at or after k that does not hold whitespace
RECURSIVE SkipSpaces(_, _)
SkipSpaces(s, k) ==
    IF k <= Len(s) /\ s[k] \in Whitespace THEN SkipSpaces(s, k + 1) ELSE k

\* CPython's _PyBytes_FromHex from position k on: whitespace is skipped in
\* front of every pair of digits, the two digits of a pair are adjacent
RECURSIVE FromHexAt(_, _)
FromHexAt(s, k) ==
    LET j == SkipSpaces(s, k) IN
    IF j > Len(s) THEN [ok |-> TRUE, bytes |-> <<>>]
    ELSE IF DigitValue(s[j]) >= 16 THEN [ok |-> FALSE, bytes |-> <<>>]
    ELSE IF j + 1 > Len(s) THEN [ok |-> FALSE, bytes |-> <<>>]
    ELSE IF DigitValue(s[j + 1]) >= 16 THEN [ok |-> FALSE, bytes |-> <<>>]
    ELSE LET rest == FromHexAt(s, j + 2) IN
         [ok |-> rest.ok,
          bytes |-> <<16 * DigitValue(s[j]) + DigitValue(s[j + 1])>> \o rest.bytes]

fromhex(s) == FromHexAt(s, 1)

\* lines 48-58: the outcome of the destination hash validation
ParseHashResult(hexhash) ==
    LET dest_len == (TRUNCATED_HASHLENGTH \div 8) * 2 IN
    IF Len(hexhash) # dest_len THEN [ok |-> FALSE, msg |-> "length", bytes |-> <<>>]
    ELSE IF ~fromhex(hexhash).ok THEN [ok |-> FALSE, msg |-> "invalid", bytes |-> <<>>]
    ELSE [ok |-> TRUE, msg |-> "", bytes |-> fromhex(hexhash).bytes]

----------------------------------------------------------------------------
(* RNS.Destination.app_and_aspects_from_name *)

\* str.split("."): the segments of s between separators
RECURSIVE SplitAt(_, _, _)
SplitAt(s, k, cur) ==
    IF k > Len(s) THEN <<cur>>
    ELSE IF s[k] = "." THEN <<cur>> \o SplitAt(s, k + 1, <<>>)
    ELSE SplitAt(s, k + 1, Append(cur, s[k]))

Split(s) == SplitAt(s, 1, <<>>)

\* fails when fewer than two segments result
app_and_aspects_from_name(name) ==
    LET components == Split(name) IN
    IF Len(components) < 2 THEN [ok |-> FALSE, app_name |-> <<>>, aspects |-> <<>>]
    ELSE [ok |-> TRUE, app_name |-> components[1], aspects |-> Tail(components)]

----------------------------------------------------------------------------
(* Initial state: the arguments argparse hands to main() *)

NoCalls == [init |-> 0, has_path |-> 0, request_path |-> 0, recall |-> 0,
            pack |-> 0, send |-> 0]

NoLookups == [next_hop |-> <<>>, if_name |-> <<>>, packet_rssi |-> <<>>,
              packet_snr |-> <<>>, receipt |-> <<>>]

SizeArgs == {None} \cup {Some(n) : n \in (-1 .. MaxSize) \cup {DEFAULT_PROBE_SIZE}}

Verbosities == {0, 1}

Init ==
    /\ pc = "main"
    /\ full_name \in {None} \cup {Some(s) : s \in Strings(NameChars, MaxNameLen)}
    /\ destination_hexhash \in
           {None} \cup {Some(s) : s \in Strings(HashChars, 2 * HashBytes + 1)}
    /\ size \in SizeArgs
    /\ verbosity \in Verbosities
    /\ more_output = FALSE
    /\ app_name = None
    /\ aspects = <<>>
    /\ destination_hash = None
    /\ i = 0
    /\ path_known \in BOOLEAN
    /\ first_has_path = None
    /\ last_has_path = None
    /\ calls = NoCalls
    /\ payload_len = None
    /\ receipt = None
    /\ shared_instance \in BOOLEAN
    /\ out = <<>>
    /\ err = "none"
    /\ interrupted_at = "none"
    /\ exit_status = None
    /\ lookups = NoLookups

----------------------------------------------------------------------------
(* Steps of the program *)

Emit(m) == out' = Append(out, m)

\* exit(code): the process ends
Exit(code) == pc' = "done" /\ exit_status' = Some(code)

\* lines 169-199 of main(): without a destination hash the help is shown
Main ==
    /\ pc = "main"
    /\ IF IsNone(destination_hexhash) \/ destination_hexhash = Some(<<>>)
       THEN /\ Emit([tag |-> "help"])
            /\ Exit(0)
       ELSE /\ pc' = "check_name"
            /\ UNCHANGED <<out, exit_status>>
    /\ UNCHANGED <<full_name, destination_hexhash, lookups, size, verbosity, more_output,
                   app_name, aspects, destination_hash, i, path_known,
                   first_has_path, last_has_path, calls, payload_len, receipt,
                   shared_instance, err, interrupted_at>>

\* CheckFullName that takes every false size, 0 included, for a missing one
CheckFullNameFalsy ==
    /\ pc = "check_name"
    /\ size' = IF IsNone(size) \/ size = Some(0)
               THEN Some(DEFAULT_PROBE_SIZE) ELSE size
    /\ IF IsNone(full_name)
       THEN /\ Emit([tag |-> "name_missing"])
            /\ err' = "name_missing"
            /\ Exit(0)
       ELSE /\ pc' = "parse_name"
            /\ UNCHANGED <<out, err, exit_status>>
    /\ UNCHANGED <<full_name, destination_hexhash, lookups, verbosity,
                   more_output, app_name, aspects, destination_hash, i,
                   path_known, first_has_path, last_has_path, calls,
                   payload_len, receipt, shared_instance, interrupted_at>>

\* lines 36-39: default size, then the full name must be present
CheckFullName ==
    /\ pc = "check_name"
    /\ size' = IF IsNone(size) THEN Some(DEFAULT_PROBE_SIZE) ELSE size
    /\ IF IsNone(full_name)
       THEN /\ Emit([tag |-> "name_missing"])
            /\ err' = "name_missing"
            /\ Exit(0)
       ELSE /\ pc' = "parse_name"
            /\ UNCHANGED <<out, err, exit_status>>
    /\ UNCHANGED <<full_name, destination_hexhash, lookups, verbosity, more_output,
                   app_name, aspects, destination_hash, i, path_known,
                   first_has_path, last_has_path, calls, payload_len, receipt,
                   shared_instance, interrupted_at>>

\* ParseName without the exit() of line 46: the message is printed and the
\* program goes on
ParseNameNoExit ==
    /\ pc = "parse_name"
    /\ LET r == app_and_aspects_from_name(Val(full_name)) IN
       IF r.ok
       THEN /\ app_name' = Some(r.app_name)
            /\ aspects' = r.aspects
            /\ UNCHANGED <<out, err>>
       ELSE /\ Emit([tag |-> "name_error"])
            /\ err' = "name_error"
            /\ UNCHANGED <<app_name, aspects>>
    /\ pc' = "parse_hash"
    /\ UNCHANGED <<full_name, destination_hexhash, lookups, size, verbosity,
                   more_output, destination_hash, i, path_known,
                   first_has_path, last_has_path, calls, payload_len, receipt,
                   shared_instance, interrupted_at, exit_status>>

\* lines 41-46
ParseName ==
    /\ pc = "parse_name"
    /\ LET r == app_and_aspects_from_name(Val(full_name)) IN
       IF r.ok
       THEN /\ app_name' = Some(r.app_name)
            /\ aspects' = r.aspects
            /\ pc' = "parse_hash"
            /\ UNCHANGED <<out, err, exit_status>>
       ELSE /\ Emit([tag |-> "name_error"])
            /\ err' = "name_error"
            /\ Exit(0)
            /\ UNCHANGED <<app_name, aspects>>
    /\ UNCHANGED <<full_name, destination_hexhash, lookups, size, verbosity, more_output,
                   destination_hash, i, path_known, first_has_path,
                   last_has_path, calls, payload_len, receipt, shared_instance,
                   interrupted_at>>

\* ParseHash without the exit() of line 58: the message is printed and the
\* program goes on
ParseHashNoExit ==
    /\ pc = "parse_hash"
    /\ LET r == ParseHashResult(Val(destination_hexhash)) IN
       IF r.ok
       THEN /\ destination_hash' = Some(r.bytes)
            /\ UNCHANGED <<out, err>>
       ELSE /\ Emit([tag |-> "hash_error", msg |-> r.msg])
            /\ err' = "hash_error"
            /\ UNCHANGED destination_hash
    /\ pc' = "init"
    /\ UNCHANGED <<full_name, destination_hexhash, lookups, size, verbosity, more_output,
                   app_name, aspects, i, path_known, first_has_path,
                   last_has_path, calls, payload_len, receipt, shared_instance,
                   interrupted_at, exit_status>>

\* lines 48-58
ParseHash ==
    /\ pc = "parse_hash"
    /\ LET r == ParseHashResult(Val(destination_hexhash)) IN
       IF r.ok
       THEN /\ destination_hash' = Some(r.bytes)
            /\ pc' = "init"
            /\ UNCHANGED <<out, err, exit_status>>
       ELSE /\ Emit([tag |-> "hash_error", msg |-> r.msg])
            /\ err' = "hash_error"
            /\ Exit(0)
            /\ UNCHANGED destination_hash
    /\ UNCHANGED <<full_name, destination_hexhash, lookups, size, verbosity, more_output,
                   app_name, aspects, i, path_known, first_has_path,
                   last_has_path, calls, payload_len, receipt, shared_instance,
                   interrupted_at>>

\* lines 60-68: verbosity, then the transport is initialised
InitReticulum ==
    /\ pc = "init"
    /\ more_output' = (verbosity > 0)
    /\ verbosity' = verbosity - 1
    /\ calls' = [calls EXCEPT !.init = @ + 1]
    /\ pc' = "first_has_path"
    /\ UNCHANGED <<full_name, destination_hexhash, lookups, size, app_name, aspects,
                   destination_hash, i, path_known, first_has_path,
                   last_has_path, payload_len, receipt, shared_instance, out,
                   err, interrupted_at, exit_status>>

\* lines 70-76: one path request when no path is known
FirstHasPath ==
    /\ pc = "first_has_path"
    /\ first_has_path' = Some(path_known)
    /\ last_has_path' = Some(path_known)
    /\ IF ~path_known
       THEN /\ calls' = [calls EXCEPT !.has_path = 1, !.request_path = @ + 1]
            /\ Emit([tag |-> "path_requested"])
       ELSE /\ calls' = [calls EXCEPT !.has_path = 1]
            /\ UNCHANGED out
    /\ i' = 0
    /\ pc' = "path_check"
    /\ UNCHANGED <<full_name, destination_hexhash, lookups, size, verbosity, more_output,
                   app_name, aspects, destination_hash, path_known, payload_len,
                   receipt, shared_instance, err, interrupted_at, exit_status>>

\* PathCheck that gives up waiting once the glyphs have gone round
PathCheckGivesUp ==
    /\ pc = "path_check"
    /\ last_has_path' = Some(path_known)
    /\ pc' = IF ~path_known /\ i < Len(syms) - 1 THEN "path_tick" ELSE "recall"
    /\ UNCHANGED <<full_name, destination_hexhash, lookups, size, verbosity, more_output,
                   app_name, aspects, destination_hash, i, path_known,
                   first_has_path, calls, payload_len, receipt, shared_instance,
                   out, err, interrupted_at, exit_status>>

\* line 77: the condition of the path wait loop
PathCheck ==
    /\ pc = "path_check"
    /\ last_has_path' = Some(path_known)
    /\ pc' = IF ~path_known THEN "path_tick" ELSE "recall"
    /\ UNCHANGED <<full_name, destination_hexhash, lookups, size, verbosity, more_output,
                   app_name, aspects, destination_hash, i, path_known,
                   first_has_path, calls, payload_len, receipt, shared_instance,
                   out, err, interrupted_at, exit_status>>

\* PathTick that asks for the path again on every tick
PathTickRerequest ==
    /\ pc = "path_tick"
    /\ i' = (i + 1) % Len(syms)
    /\ calls' = [calls EXCEPT !.request_path = IF @ < 3 THEN @ + 1 ELSE @]
    /\ pc' = "path_check"
    /\ UNCHANGED <<full_name, destination_hexhash, lookups, size, verbosity, more_output,
                   app_name, aspects, destination_hash, path_known,
                   first_has_path, last_has_path, payload_len, receipt,
                   shared_instance, out, err, interrupted_at, exit_status>>

\* lines 78-81: sleep, show a glyph, advance the glyph index
PathTick ==
    /\ pc = "path_tick"
    /\ i' = (i + 1) % Len(syms)
    /\ pc' = "path_check"
    /\ UNCHANGED <<full_name, destination_hexhash, lookups, size, verbosity, more_output,
                   app_name, aspects, destination_hash, path_known,
                   first_has_path, last_has_path, calls, payload_len, receipt,
                   shared_instance, out, err, interrupted_at, exit_status>>

\* lines 83-91: identity recall and the outbound destination
Recall ==
    /\ pc = "recall"
    /\ calls' = [calls EXCEPT !.recall = @ + 1]
    /\ pc' = "pack"
    /\ UNCHANGED <<full_name, destination_hexhash, lookups, size, verbosity, more_output,
                   app_name, aspects, destination_hash, i, path_known,
                   first_has_path, last_has_path, payload_len, receipt,
                   shared_instance, out, err, interrupted_at, exit_status>>

\* what the program does with the outcome of probe.pack(): excess is the
\* length of the packed frame minus the MTU
PackFails(excess) == excess > 0

\* Pack without the exit(1) of line 98: the size error is printed and the
\* probe is sent all the same
PackNoExit ==
    /\ pc = "pack"
    /\ IF Val(size) < 0
       THEN /\ Emit([tag |-> "traceback"])
            /\ err' = "urandom"
            /\ Exit(1)
            /\ UNCHANGED <<calls, payload_len>>
       ELSE \E excess \in {-1, 0, 1} :
            /\ payload_len' = Some(Val(size))
            /\ calls' = [calls EXCEPT !.pack = @ + 1]
            /\ pc' = "send"
            /\ UNCHANGED exit_status
            /\ IF PackFails(excess)
               THEN /\ Emit([tag |-> "size_error"])
                    /\ err' = "size_error"
               ELSE UNCHANGED <<out, err>>
    /\ UNCHANGED <<full_name, destination_hexhash, lookups, size, verbosity, more_output,
                   app_name, aspects, destination_hash, i, path_known,
                   first_has_path, last_has_path, receipt, shared_instance,
                   interrupted_at>>

\* lines 93-98: os.urandom(size) raises ValueError for a negative size, which
\* no handler catches; pack() raises OSError when the frame exceeds the MTU
Pack ==
    /\ pc = "pack"
    /\ IF Val(size) < 0
       THEN /\ Emit([tag |-> "traceback"])
            /\ err' = "urandom"
            /\ Exit(1)
            /\ UNCHANGED <<calls, payload_len>>
       ELSE \E excess \in {-1, 0, 1} :
            /\ payload_len' = Some(Val(size))
            /\ calls' = [calls EXCEPT !.pack = @ + 1]
            /\ IF PackFails(excess)
               THEN /\ Emit([tag |-> "size_error"])
                    /\ err' = "size_error"
                    /\ Exit(1)
               ELSE /\ pc' = "send"
                    /\ UNCHANGED <<out, err, exit_status>>
    /\ UNCHANGED <<full_name, destination_hexhash, lookups, size, verbosity, more_output,
                   app_name, aspects, destination_hash, i, path_known,
                   first_has_path, last_has_path, receipt, shared_instance,
                   interrupted_at>>

\* line 100: send returns at once with a receipt in flight
Send ==
    /\ pc = "send"
    /\ calls' = [calls EXCEPT !.send = @ + 1]
    /\ receipt' = Some([status |-> SENT, hash |-> "probe", proof_packet |-> None,
                        rtt |-> None])
    /\ pc' = "sent_line"
    /\ UNCHANGED <<full_name, destination_hexhash, lookups, size, verbosity, more_output,
                   app_name, aspects, destination_hash, i, path_known,
                   first_has_path, last_has_path, payload_len, shared_instance,
                   out, err, interrupted_at, exit_status>>

NextHops == {None, Some("nh")}

\* get_next_hop_if_name answers with a string; line 105 takes the string
\* "None" for no interface
IfNames == {Some("None"), Some("if0")}

\* str(x) of an optional name
Str(o) == IF IsNone(o) THEN "None" ELSE Val(o)

\* line 104: the next hop is shown when the lookup returned one
ViaStr(nhd) == IF nhd # None THEN nhd ELSE None

\* line 105: the interface name is looked up twice, once for the condition
\* (the answer is compared with the string "None") and once for the text
IfStr(ifn1, ifn2) == IF ifn1 # Some("None") THEN Some(Str(ifn2)) ELSE None

\* the get_next_hop_if_name calls line 105 makes for these answers
IfLookups(ifn1, ifn2) == IF ifn1 # Some("None") THEN <<ifn1, ifn2>> ELSE <<ifn1>>

\* lines 102-112: the "Sent" line, with next hop and interface when verbose
SentLine ==
    /\ pc = "sent_line"
    /\ IF more_output
       THEN \E nhd \in NextHops, ifn1 \in IfNames, ifn2 \in IfNames :
            /\ Emit([tag |-> "sent", size |-> Val(size),
                     via |-> ViaStr(nhd), on |-> IfStr(ifn1, ifn2)])
            /\ lookups' = [lookups EXCEPT !.next_hop = <<nhd>>,
                                          !.if_name = IfLookups(ifn1, ifn2)]
       ELSE /\ Emit([tag |-> "sent", size |-> Val(size), via |-> None, on |-> None])
            /\ UNCHANGED lookups
    /\ i' = 0
    /\ pc' = "receipt_check"
    /\ UNCHANGED <<full_name, destination_hexhash, size, verbosity, more_output,
                   app_name, aspects, destination_hash, path_known,
                   first_has_path, last_has_path, calls, payload_len, receipt,
                   shared_instance, err, interrupted_at, exit_status>>

\* ReceiptCheck with a timeout of its own: it leaves the loop once the glyphs
\* have gone round
ReceiptCheckTimeout ==
    /\ pc = "receipt_check"
    /\ pc' = IF Val(receipt).status = SENT /\ i < Len(syms) - 1
             THEN "receipt_tick" ELSE "report"
    /\ UNCHANGED <<full_name, destination_hexhash, lookups, size, verbosity, more_output,
                   app_name, aspects, destination_hash, i, path_known,
                   first_has_path, last_has_path, calls, payload_len, receipt,
                   shared_instance, out, err, interrupted_at, exit_status>>

\* ReceiptCheck that waits for DELIVERED instead of for the end of SENT
ReceiptCheckWaitsForDelivery ==
    /\ pc = "receipt_check"
    /\ pc' = IF Val(receipt).status # DELIVERED THEN "receipt_tick" ELSE "report"
    /\ UNCHANGED <<full_name, destination_hexhash, lookups, size, verbosity, more_output,
                   app_name, aspects, destination_hash, i, path_known,
                   first_has_path, last_has_path, calls, payload_len, receipt,
                   shared_instance, out, err, interrupted_at, exit_status>>

\* line 113: the condition of the receipt wait loop
ReceiptCheck ==
    /\ pc = "receipt_check"
    /\ pc' = IF Val(receipt).status = SENT THEN "receipt_tick" ELSE "report"
    /\ UNCHANGED <<full_name, destination_hexhash, lookups, size, verbosity, more_output,
                   app_name, aspects, destination_hash, i, path_known,
                   first_has_path, last_has_path, calls, payload_len, receipt,
                   shared_instance, out, err, interrupted_at, exit_status>>

\* lines 114-117
ReceiptTick ==
    /\ pc = "receipt_tick"
    /\ i' = (i + 1) % Len(syms)
    /\ pc' = "receipt_check"
    /\ UNCHANGED <<full_name, destination_hexhash, lookups, size, verbosity, more_output,
                   app_name, aspects, destination_hash, path_known,
                   first_has_path, last_has_path, calls, payload_len, receipt,
                   shared_instance, out, err, interrupted_at, exit_status>>

HopCounts == {1, 2}

Metrics == {None, Some(-7)}

\* RttString with > for >= at line 130
RttStringStrict(rtt) ==
    IF rtt > 1000 THEN [unit |-> "seconds", milli |-> rtt]
    ELSE [unit |-> "milliseconds", milli |-> rtt * 1000]

\* lines 129-135: the unit of the round-trip time, rtt in milliseconds
RttString(rtt) ==
    IF rtt >= 1000 THEN [unit |-> "seconds", milli |-> rtt]
    ELSE [unit |-> "milliseconds", milli |-> rtt * 1000]

\* ReceptionStats that shows the SNR only below a shown RSSI
ReceptionStatsNested(shared, proof_packet, log_rssi, log_snr) ==
    IF shared
    THEN [rssi |-> log_rssi, snr |-> IF log_rssi # None THEN log_snr ELSE None]
    ELSE IF proof_packet # None
         THEN [rssi |-> Val(proof_packet).rssi,
               snr |-> IF Val(proof_packet).rssi # None
                       THEN Val(proof_packet).snr ELSE None]
         ELSE [rssi |-> None, snr |-> None]

\* lines 137-154: the metrics shown, from the packet log of the shared
\* instance or from the proof packet
ReceptionStats(shared, proof_packet, log_rssi, log_snr) ==
    IF shared THEN [rssi |-> log_rssi, snr |-> log_snr]
    ELSE IF proof_packet # None
         THEN [rssi |-> Val(proof_packet).rssi, snr |-> Val(proof_packet).snr]
         ELSE [rssi |-> None, snr |-> None]

\* one read of a field of the receipt: the status it had, whether the field
\* was set
ReceiptRead(field, r) ==
    [field |-> field, status |-> r.status, set |-> r[field] # None]

\* an exception nobody catches: traceback, exit status 1
Crash(e) == Emit([tag |-> "traceback"]) /\ err' = e /\ Exit(1)

\* lines 123-162: receipt.get_rtt() raises TypeError while the time of the
\* proof is unset, receipt.proof_packet.packet_hash raises AttributeError
\* while the proof packet is
ReportDelivered ==
    LET r == Val(receipt) IN
    IF r.rtt = None
    THEN /\ lookups' = [lookups EXCEPT !.receipt = <<ReceiptRead("rtt", r)>>]
         /\ Crash("rtt_unset")
    ELSE IF shared_instance /\ r.proof_packet = None
            THEN /\ lookups' = [lookups EXCEPT !.receipt =
                                   <<ReceiptRead("rtt", r),
                                     ReceiptRead("proof_packet", r)>>]
                 /\ Crash("proof_packet_unset")
            ELSE \E hops \in HopCounts, log_rssi \in Metrics, log_snr \in Metrics :
                 /\ Emit([tag |-> "delivered",
                          hops |-> hops,
                          plural |-> (hops # 1),
                          rtt |-> RttString(Val(r.rtt)),
                          stats |-> ReceptionStats(shared_instance, r.proof_packet,
                                                   log_rssi, log_snr)])
                 /\ lookups' =
                      [lookups EXCEPT
                          !.receipt = <<ReceiptRead("rtt", r),
                                        ReceiptRead("proof_packet", r)>>,
                          !.packet_rssi =
                              IF shared_instance
                              THEN <<[key |-> Val(r.proof_packet).packet_hash,
                                      val |-> log_rssi]>>
                              ELSE <<>>,
                          !.packet_snr =
                              IF shared_instance
                              THEN <<[key |-> Val(r.proof_packet).packet_hash,
                                      val |-> log_snr]>>
                              ELSE <<>>]
                 /\ Exit(0)
                 /\ UNCHANGED err

\* lines 164-165
ReportTimedOut ==
    /\ Emit([tag |-> "timeout"])
    /\ Exit(0)
    /\ UNCHANGED <<lookups, err>>

\* Report that compares the status with the wrong constant at line 122
ReportWrongStatus ==
    /\ pc = "report"
    /\ IF Val(receipt).status = SENT THEN ReportDelivered ELSE ReportTimedOut
    /\ UNCHANGED <<full_name, destination_hexhash, size, verbosity, more_output,
                   app_name, aspects, destination_hash, i, path_known,
                   first_has_path, last_has_path, calls, payload_len, receipt,
                   shared_instance, interrupted_at>>

\* Report that tries again after a timeout
ReportRetry ==
    /\ pc = "report"
    /\ IF Val(receipt).status = DELIVERED
       THEN ReportDelivered
       ELSE /\ Emit([tag |-> "timeout"])
            /\ IF calls.pack < 2
               THEN pc' = "pack" /\ UNCHANGED exit_status
               ELSE Exit(0)
            /\ UNCHANGED <<lookups, err>>
    /\ UNCHANGED <<full_name, destination_hexhash, size, verbosity, more_output,
                   app_name, aspects, destination_hash, i, path_known,
                   first_has_path, last_has_path, calls, payload_len, receipt,
                   shared_instance, interrupted_at>>

\* Report that takes the round-trip time before it looks at the status
ReportReadsEarly ==
    /\ pc = "report"
    /\ IF Val(receipt).status = DELIVERED \/ Val(receipt).rtt = None
       THEN ReportDelivered
       ELSE ReportTimedOut
    /\ UNCHANGED <<full_name, destination_hexhash, size, verbosity, more_output,
                   app_name, aspects, destination_hash, i, path_known,
                   first_has_path, last_has_path, calls, payload_len, receipt,
                   shared_instance, interrupted_at>>

\* lines 119-165, then program_setup and main return
Report ==
    /\ pc = "report"
    /\ IF Val(receipt).status = DELIVERED THEN ReportDelivered ELSE ReportTimedOut
    /\ UNCHANGED <<full_name, destination_hexhash, size, verbosity, more_output,
                   app_name, aspects, destination_hash, i, path_known,
                   first_has_path, last_has_path, calls, payload_len, receipt,
                   shared_instance, interrupted_at>>

----------------------------------------------------------------------------
(* The transport collaborator and the user *)

Running == pc # "done"

\* the path table gains or loses the path to the destination, at any moment
\* up to the last has_path call of the program
PathChange ==
    /\ pc \in {"first_has_path", "path_check", "path_tick"}
    /\ path_known' = ~path_known
    /\ UNCHANGED <<pc, full_name, destination_hexhash, lookups, size, verbosity,
                   more_output, app_name, aspects, destination_hash, i,
                   first_has_path, last_has_path, calls, payload_len, receipt,
                   shared_instance, out, err, interrupted_at, exit_status>>

RttValues == {999, 1000}

\* a proof arrives: the receipt becomes DELIVERED
ReceiptProved ==
    /\ Running
    /\ receipt # None
    /\ Val(receipt).status = SENT
    /\ \E rssi \in Metrics, snr \in Metrics, rtt \in RttValues :
       receipt' = Some([Val(receipt) EXCEPT
                           !.status = DELIVERED,
                           !.proof_packet = Some([packet_hash |-> "proof",
                                                  rssi |-> rssi, snr |-> snr]),
                           !.rtt = Some(rtt)])
    /\ UNCHANGED <<pc, full_name, destination_hexhash, lookups, size, verbosity,
                   more_output, app_name, aspects, destination_hash, i,
                   path_known, first_has_path, last_has_path, calls,
                   payload_len, shared_instance, out, err, interrupted_at,
                   exit_status>>

\* the receipt times out in the collaborator: it becomes FAILED
ReceiptTimeout ==
    /\ Running
    /\ receipt # None
    /\ Val(receipt).status = SENT
    /\ receipt' = Some([Val(receipt) EXCEPT !.status = FAILED])
    /\ UNCHANGED <<pc, full_name, destination_hexhash, lookups, size, verbosity,
                   more_output, app_name, aspects, destination_hash, i,
                   path_known, first_has_path, last_has_path, calls,
                   payload_len, shared_instance, out, err, interrupted_at,
                   exit_status>>

\* Interrupt with no handler in main: the process dies with status 1
InterruptNotCaught ==
    /\ Running
    /\ interrupted_at' = pc
    /\ Emit([tag |-> "traceback"])
    /\ Exit(1)
    /\ UNCHANGED <<full_name, destination_hexhash, lookups, size, verbosity, more_output,
                   app_name, aspects, destination_hash, i, path_known,
                   first_has_path, last_has_path, calls, payload_len, receipt,
                   shared_instance, err>>

\* lines 201-203: KeyboardInterrupt raised anywhere inside main's try
Interrupt ==
    /\ Running
    /\ interrupted_at' = pc
    /\ Emit([tag |-> "newline"])
    /\ Exit(0)
    /\ UNCHANGED <<full_name, destination_hexhash, lookups, size, verbosity, more_output,
                   app_name, aspects, destination_hash, i, path_known,
                   first_has_path, last_has_path, calls, payload_len, receipt,
                   shared_instance, err>>

----------------------------------------------------------------------------

Step ==
    \/ Main
    \/ CheckFullName
    \/ ParseName
    \/ ParseHash
    \/ InitReticulum
    \/ FirstHasPath
    \/ PathCheck
    \/ PathTick
    \/ Recall
    \/ Pack
    \/ Send
    \/ SentLine
    \/ ReceiptCheck
    \/ ReceiptTick
    \/ Report

Next ==
    \/ Step
    \/ PathChange
    \/ ReceiptProved
    \/ ReceiptTimeout
    \/ Interrupt

Spec == Init /\ [][Next]_vars

----------------------------------------------------------------------------
(* The program never stops of itself while a wait lasts: its thread runs   *)
(* on after every sleep.  LiveSpec starts from a well-formed name and hash. *)

LiveInit ==
    /\ Init
    /\ full_name = Some(<<"a", ".">>)
    /\ \E c \in HexDigits \cap HashChars :
          destination_hexhash = Some([k \in 1..(2 * HashBytes) |-> c])

LiveSpec == LiveInit /\ [][Next]_vars /\ WF_vars(Step)

----------------------------------------------------------------------------
(* Properties *)

\* number of printed messages with the given tag
Count(tag) == Cardinality({k \in DOMAIN out : out[k].tag = tag})

Outcomes == Count("delivered") + Count("timeout")

\* a hex string the hash validation is to reject: wrong length, or a
\* character that is no hexadecimal digit
BadHex(s) == Len(s) # 2 * HashBytes \/ \E k \in DOMAIN s : s[k] \notin HexDigits

\* the hash validation of lines 48-58 has been carried out
HashValidated == destination_hash # None \/ err = "hash_error"

\* C1: every destination hex string of the wrong length, and every string of
\* the right length with a character outside 0-9/a-f/A-F, fails the hash
\* validation: the address-format message is printed and the process ends
\* without path lookup or send.
C1_BadHashRejected ==
    (/\ destination_hexhash # None
     /\ HashValidated
     /\ BadHex(Val(destination_hexhash)))
    => /\ err = "hash_error"
       /\ pc = "done"
       /\ Count("hash_error") = 1
       /\ calls.has_path = 0
       /\ calls.send = 0

\* C2: when the full name is missing, the signature does not parse or the
\* hash validation fails, the process has ended and no transport operation
\* (initialisation, has_path, request_path, recall, pack, send) was invoked.
C2_NoTransportOnBadAddress ==
    err \in {"name_missing", "name_error", "hash_error"}
    => /\ pc = "done"
       /\ calls = NoCalls
       /\ first_has_path = None
       /\ receipt = None

C2_Witness ==
    /\ err = "hash_error"
    /\ pc = "done"
    /\ Len(Val(destination_hexhash)) # 2 * HashBytes

\* C3: request_path is invoked exactly once when the first has_path call
\* returns false and never when it returns true, however many poll ticks the
\* path wait lasts.
C3_RequestPathOnce ==
    /\ first_has_path = None => calls.request_path = 0
    /\ first_has_path = Some(TRUE) => calls.request_path = 0
    /\ first_has_path = Some(FALSE) => calls.request_path = 1

C3_Witness ==
    /\ first_has_path = Some(FALSE)
    /\ pc = "path_tick"
    /\ i = Len(syms) - 1
    /\ calls.request_path = 1

\* C4: identity recall, pack and send happen only after a has_path call has
\* returned true, and the path wait does not end on a has_path call that
\* returned false: once the program is past the wait, the latest has_path
\* call returned true.
C4_ProbeOnlyWithPath ==
    (\/ pc \in {"recall", "pack", "send", "sent_line", "receipt_check",
                "receipt_tick", "report"}
     \/ calls.recall + calls.pack + calls.send > 0
     \/ receipt # None)
    => last_has_path = Some(TRUE)

C4_Witness ==
    /\ first_has_path = Some(FALSE)
    /\ calls.recall = 1
    /\ calls.pack = 1
    /\ calls.send = 1

\* C5: when pack fails because the frame exceeds the MTU, the size error is
\* printed, the process ends with status 1 and send is never invoked: no
\* receipt, no receipt polling, no outcome report.
C5_SizeErrorStopsProbe ==
    err = "size_error"
    => /\ pc = "done"
       /\ exit_status = Some(1)
       /\ Count("size_error") = 1
       /\ calls.send = 0
       /\ receipt = None
       /\ Count("sent") = 0
       /\ Outcomes = 0

C5_Witness ==
    /\ err = "size_error"
    /\ calls.pack = 1
    /\ pc = "done"

\* C6: the receipt wait has no timeout of its own: the loop is left and an
\* outcome is printed only once the collaborator has moved the receipt out
\* of SENT.
C6_NoOwnTimeout ==
    (pc = "report" \/ Outcomes > 0)
    => /\ receipt # None
       /\ Val(receipt).status # SENT

C6_Witness ==
    /\ pc = "receipt_tick"
    /\ i = Len(syms) - 1
    /\ Val(receipt).status = SENT
    /\ Outcomes = 0

\* the delivered report carries round-trip time, hop count and metrics
IsDeliveredReport(m) ==
    /\ m.tag = "delivered"
    /\ DOMAIN m = {"tag", "hops", "plural", "rtt", "stats"}

\* the timeout report carries nothing else
IsTimeoutReport(m) == m = [tag |-> "timeout"]

\* the probe ran to its end: program_setup returned from the report
Completed == pc = "done" /\ receipt # None /\ interrupted_at = "none"

\* C7: the outcome printed agrees with the terminal state of the receipt:
\* the delivered report if and only if the receipt is DELIVERED, "Probe timed
\* out" without any detail if and only if it is FAILED, and exactly one of
\* the two for a completed probe.
C7_OutcomeMatchesReceipt ==
    /\ Outcomes <= 1
    /\ \A k \in DOMAIN out :
          /\ out[k].tag = "delivered"
             => IsDeliveredReport(out[k]) /\ Val(receipt).status = DELIVERED
          /\ out[k].tag = "timeout"
             => IsTimeoutReport(out[k]) /\ Val(receipt).status = FAILED
    /\ Completed
       => /\ Outcomes = 1
          /\ Val(receipt).status = DELIVERED <=> Count("delivered") = 1
          /\ Val(receipt).status = FAILED <=> Count("timeout") = 1

C7_Witness ==
    /\ Completed
    /\ Val(receipt).status = DELIVERED
    /\ Count("delivered") = 1

\* C8: one probe attempt per invocation: send (as pack and request_path) is
\* invoked at most once, and after a FAILED receipt was reported, or after
\* any error, no collaborator operation is invoked again.
C8_SingleAttempt ==
    /\ [](calls.send <= 1 /\ calls.pack <= 1 /\ calls.request_path <= 1)
    /\ [][(Count("timeout") > 0 \/ err # "none")
          => (calls' = calls /\ receipt' = receipt /\ pc' = "done")]_vars

C8_Witness ==
    /\ Count("timeout") = 1
    /\ Val(receipt).status = FAILED
    /\ calls.send = 1
    /\ pc = "done"

PathWait == {"path_check", "path_tick"}

ReceiptWait == {"receipt_check", "receipt_tick"}

\* C9: an interrupt during the path wait or the receipt wait ends the process
\* with status 0 and without an outcome report; after an interrupt during
\* the path wait send was never invoked.
C9_InterruptExitsQuietly ==
    interrupted_at \in PathWait \cup ReceiptWait
    => /\ pc = "done"
       /\ exit_status = Some(0)
       /\ Outcomes = 0
       /\ interrupted_at \in PathWait => calls.send = 0 /\ receipt = None

C9_Witness ==
    /\ interrupted_at = "receipt_tick"
    /\ Val(receipt).status = DELIVERED
    /\ pc = "done"

\* C10: with no interrupt, a path that is eventually known for good, a pack
\* that succeeds and a receipt that the collaborator eventually moves out of
\* SENT, the program leaves both loops and ends with exactly one outcome.
C10_Terminates ==
    (/\ [](interrupted_at = "none")
     /\ [](err = "none")
     /\ <>[]path_known
     /\ <>(receipt # None /\ Val(receipt).status # SENT))
    => <>(pc = "done" /\ Outcomes = 1)

C10_Witness ==
    /\ pc = "done"
    /\ Outcomes = 1
    /\ first_has_path = Some(FALSE)
    /\ interrupted_at = "none"

\* C11: over all ways the process ends, the exit status is 1 exactly when
\* the probe exceeded the MTU; a delivered probe, a timed-out probe, the help
\* shown for a missing destination, and a user interrupt all end with
\* status 0.
C11_ExitOneOnlyOnMtu ==
    pc = "done"
    => /\ exit_status = Some(1) <=> err = "size_error"
       /\ (\/ Outcomes > 0
           \/ Count("help") > 0
           \/ interrupted_at # "none") => exit_status = Some(0)

\* the delivered reports printed
DeliveredReports == {out[k] : k \in {j \in DOMAIN out : out[j].tag = "delivered"}}

\* C12: on a DELIVERED receipt the report uses the seconds branch (value rtt)
\* if and only if rtt >= 1.0 s, and otherwise the milliseconds branch (value
\* rtt * 1000); a round-trip time of exactly 1.0 s is reported in seconds.
C12_RttUnit ==
    \A m \in DeliveredReports :
        LET rtt == Val(Val(receipt).rtt) IN
        /\ m.rtt.unit \in {"seconds", "milliseconds"}
        /\ m.rtt.unit = "seconds" <=> rtt >= 1000
        /\ m.rtt.unit = "seconds" => m.rtt.milli = rtt
        /\ m.rtt.unit = "milliseconds" => m.rtt.milli = rtt * 1000

C12_Witness ==
    /\ \E m \in DeliveredReports : m.rtt.unit = "seconds"
    /\ Val(receipt).rtt = Some(1000)

\* C13: in the delivered report the RSSI annotation and the SNR annotation
\* are each present if and only if that metric is present in the source,
\* whatever the other metric is; the source is the packet log, asked with
\* the hash of the proof packet, when connected to a shared instance, and
\* the fields of the proof packet otherwise.
C13_MetricsShownIffPresent ==
    \A m \in DeliveredReports :
        LET pp == Val(receipt).proof_packet IN
        IF shared_instance
        THEN /\ Len(lookups.packet_rssi) = 1
             /\ Len(lookups.packet_snr) = 1
             /\ lookups.packet_rssi[1].key = Val(pp).packet_hash
             /\ lookups.packet_snr[1].key = Val(pp).packet_hash
             /\ m.stats.rssi # None <=> lookups.packet_rssi[1].val # None
             /\ m.stats.snr # None <=> lookups.packet_snr[1].val # None
             /\ m.stats.rssi = lookups.packet_rssi[1].val
             /\ m.stats.snr = lookups.packet_snr[1].val
        ELSE /\ lookups.packet_rssi = <<>>
             /\ lookups.packet_snr = <<>>
             /\ pp # None
             /\ m.stats.rssi # None <=> Val(pp).rssi # None
             /\ m.stats.snr # None <=> Val(pp).snr # None
             /\ m.stats.rssi = Val(pp).rssi
             /\ m.stats.snr = Val(pp).snr

C13_Witness ==
    /\ shared_instance
    /\ \E m \in DeliveredReports : m.stats.rssi = None /\ m.stats.snr # None
    /\ Val(Val(receipt).proof_packet).rssi # None
    /\ Val(Val(receipt).proof_packet).snr = None

\* the "Sent" lines printed
SentLines == {out[k] : k \in {j \in DOMAIN out : out[j].tag = "sent"}}

\* an answer of get_next_hop_if_name that names an interface
IfKnown(ifn) == ifn # None /\ ifn # Some("None")

\* C14: in the "Sent" line the next-hop annotation appears if and only if
\* verbosity > 0 and the next hop is known, the interface annotation if and
\* only if verbosity > 0 and the interface name is known; a lookup that
\* returns absent leaves its field out, and with verbosity 0 no lookup is
\* made.
C14_VerboseAnnotations ==
    \A m \in SentLines :
        IF more_output
        THEN /\ Len(lookups.next_hop) = 1
             /\ m.via # None <=> lookups.next_hop[1] # None
             /\ Len(lookups.if_name) >= 1
             /\ m.on # None <=>
                   \A j \in DOMAIN lookups.if_name : IfKnown(lookups.if_name[j])
        ELSE /\ m.via = None
             /\ m.on = None
             /\ lookups.next_hop = <<>>
             /\ lookups.if_name = <<>>

\* C15: the payload handed to pack has exactly size bytes, where size is 16
\* when it was left unspecified and the given size otherwise, 0 included:
\* size only ever changes from unspecified to 16, and the payload has size
\* bytes.
C15_PayloadSize ==
    /\ [](payload_len # None => (size # None /\ payload_len = size /\ Val(size) >= 0))
    /\ [][size' # size => (IsNone(size) /\ size' = Some(DEFAULT_PROBE_SIZE))]_vars

C15_Witness ==
    /\ payload_len = Some(0)
    /\ calls.pack = 1

\* a name without separator: it splits into fewer than two segments
NoSeparator(s) == \A k \in DOMAIN s : s[k] # "."

\* the signature parsing of lines 41-46 has been carried out
NameParsed == app_name # None \/ err = "name_error"

\* C16: every full name that splits into fewer than two segments (the empty
\* string, a name without separator) fails the signature parsing with the
\* address-format message, and the probe goes no further: no path lookup,
\* no send.
C16_ShortNameRejected ==
    (/\ full_name # None
     /\ NoSeparator(Val(full_name))
     /\ NameParsed)
    => /\ err = "name_error"
       /\ pc = "done"
       /\ Count("name_error") = 1
       /\ calls = NoCalls
       /\ first_has_path = None
       /\ receipt = None

C16_Witness ==
    /\ full_name = Some(<<>>)
    /\ err = "name_error"
    /\ pc = "done"

\* C17: whenever the program waits in the path loop (a has_path call of the
\* loop returned false), a path request has been issued, whatever the
\* collaborator does to the path table between two has_path calls.
C17_WaitingImpliesRequested ==
    pc = "path_tick" => calls.request_path >= 1

====
